---- MODULE Spec2Model ----
(***************************************************************************)
(* A model of runtime/mercury_float.h: the float <-> word codecs (boxed    *)
(* and unboxed), the heap boxing of floats, the dword codec and the        *)
(* classifier macros.  Values are byte sequences in memory order, memory   *)
(* is byte addressed, so that every union access and every pointer cast is *)
(* modelled by the bytes it reads and writes.                              *)
(***************************************************************************)
EXTENDS Integers, Sequences, FiniteSets, TLC

VARIABLES cfg, cc, MR_hp, allocated, mem, boxes, last,
          pc, tf, tneed, twr, tmine, tret, shared

vars == <<cfg, cc, MR_hp, allocated, mem, boxes, last,
          pc, tf, tneed, twr, tmine, tret, shared>>

heapVars == <<MR_hp, allocated, mem, boxes>>
thrVars == <<pc, tf, tneed, twr, tmine, tret, shared>>

(* ---------------------------- bounds ----------------------------------- *)
HeapWords == 6
MaxAlloc == 2
NumSites == 2
NumThreads == 2

(* ------------------------ program constants ---------------------------- *)
SingleBytes == 4
DoubleBytes == 8
WordSizes == {4, 8}

(* bytes an indeterminate (never written) union or stack byte may hold *)
JunkBytes == {0, 255}
(* the byte other runtime code fills its own heap blocks with *)
FillBytes == {170}

(* ------------------------- float bit patterns -------------------------- *)
(* IEEE-754 binary64 patterns, least significant byte first *)
PosZeroD == <<0, 0, 0, 0, 0, 0, 0, 0>>
NegZeroD == <<0, 0, 0, 0, 0, 0, 0, 128>>
PosInfD == <<0, 0, 0, 0, 0, 0, 240, 127>>
NegInfD == <<0, 0, 0, 0, 0, 0, 240, 255>>
QNaND == <<0, 0, 0, 0, 0, 0, 248, 127>>
NaNPayloadD == <<1, 0, 0, 0, 0, 0, 240, 127>>
NegNaNPayloadD == <<239, 190, 173, 222, 0, 0, 244, 255>>
LowMantNaND == <<0, 0, 0, 0, 0, 1, 240, 127>>
OneD == <<0, 0, 0, 0, 0, 0, 240, 63>>
TwoPointFiveD == <<0, 0, 0, 0, 0, 0, 4, 64>>
PiD == <<110, 134, 27, 240, 249, 33, 9, 64>>
MaxFiniteD == <<255, 255, 255, 255, 255, 255, 239, 127>>
MinDenormD == <<1, 0, 0, 0, 0, 0, 0, 0>>
HighExpD == <<0, 0, 0, 0, 0, 0, 224, 127>>

(* IEEE-754 binary32 patterns, least significant byte first *)
PosZeroS == <<0, 0, 0, 0>>
NegZeroS == <<0, 0, 0, 128>>
PosInfS == <<0, 0, 128, 127>>
NegInfS == <<0, 0, 128, 255>>
QNaNS == <<0, 0, 192, 127>>
NaNPayloadS == <<1, 0, 128, 127>>
NegNaNPayloadS == <<173, 222, 160, 255>>
OneS == <<0, 0, 128, 63>>
TwoPointFiveS == <<0, 0, 32, 64>>
MaxFiniteS == <<255, 255, 127, 127>>
MinDenormS == <<1, 0, 0, 0>>
HighExpS == <<0, 0, 0, 127>>

DoubleFloats ==
    {PosZeroD, NegZeroD, PosInfD, NegInfD, QNaND, NaNPayloadD,
     NegNaNPayloadD, LowMantNaND, OneD, TwoPointFiveD, PiD, MaxFiniteD,
     MinDenormD, HighExpD}

SingleFloats ==
    {PosZeroS, NegZeroS, PosInfS, NegInfS, QNaNS, NaNPayloadS,
     NegNaNPayloadS, OneS, TwoPointFiveS, MaxFiniteS, MinDenormS, HighExpS}

(* the values boxed on the heap by the heap specifications *)
HeapDoubles == {NaNPayloadD, TwoPointFiveD}
HeapSingles == {NaNPayloadS, TwoPointFiveS}

(* ----------------------- build configuration --------------------------- *)
(* cfg.single    : MR_USE_SINGLE_PREC_FLOAT is defined                     *)
(* cfg.confBoxed : mercury_conf.h defines MR_BOXED_FLOAT                   *)
(* cfg.consGC    : MR_CONSERVATIVE_GC is defined                           *)
(* cfg.wordBytes : sizeof(MR_Word)                                         *)
(* cc.gnuc, cc.clang  : MR_GNUC, MR_CLANG                                  *)
(* cc.c99, cc.solaris : __STDC_VERSION__ >= 199901, MR_SOLARIS             *)

FloatBytes(c) == IF c.single THEN SingleBytes ELSE DoubleBytes

MR_BOXED_FLOAT(c) == IF c.single THEN FALSE ELSE c.confBoxed

MR_FLOAT_WORDS(c) == (FloatBytes(c) + c.wordBytes - 1) \div c.wordBytes

(* mercury_conf.h boxes doubles exactly when a double does not fit a word *)
ConfBoxedFloat(w) == DoubleBytes > w

AllConfigs ==
    [single : BOOLEAN, confBoxed : BOOLEAN, consGC : BOOLEAN,
     wordBytes : WordSizes]

BuildConfigs == {c \in AllConfigs : c.confBoxed = ConfBoxedFloat(c.wordBytes)}

Floats(c) == IF c.single THEN SingleFloats ELSE DoubleFloats

HeapFloats(c) == IF c.single THEN HeapSingles ELSE HeapDoubles

(* the arguments of MR_float_to_word: every pattern when no heap is involved *)
ConvFloats(c) == IF MR_BOXED_FLOAT(c) THEN HeapFloats(c) ELSE Floats(c)

(* --------------------------- memory layout ----------------------------- *)
HeapBytes(c) == HeapWords * c.wordBytes
StaticBase == HeapWords * DoubleBytes
MemBytes == StaticBase + NumSites * DoubleBytes
Sites == 1..NumSites
StaticAddr(s) == StaticBase + (s - 1) * DoubleBytes

LitSeq == <<TwoPointFiveD, NaNPayloadD, NegZeroD>>
Lit(s) == LitSeq[((s - 1) % Len(LitSeq)) + 1]

(* the pointer <-> MR_Word casts: an address as the bytes of a word *)
RECURSIVE AddrToWord(_, _)
AddrToWord(a, n) ==
    IF n = 0 THEN <<>> ELSE <<a % 256>> \o AddrToWord(a \div 256, n - 1)

RECURSIVE WordToAddr(_)
WordToAddr(w) ==
    IF w = <<>> THEN 0 ELSE w[1] + 256 * WordToAddr(Tail(w))

\* store and load of an MR_Float through a pointer cast
StoreFloat(m, a, f) ==
    [x \in DOMAIN m |->
        IF x >= a /\ x < a + Len(f) THEN f[x - a + 1] ELSE m[x]]

LoadFloat(m, a, n) == [i \in 1..n |-> m[a + i - 1]]

FillBlock(m, a, n, b) ==
    [x \in DOMAIN m |-> IF x >= a /\ x < a + n THEN b ELSE m[x]]

(* a union: members overlap from offset 0; unwritten bytes keep junk *)
JunkUnion(n) == {[i \in 1..n |-> b] : b \in JunkBytes}
UnionWrite(u, v) == [i \in 1..Len(u) |-> IF i <= Len(v) THEN v[i] ELSE u[i]]
UnionRead(u, n) == SubSeq(u, 1, n)
Max(a, b) == IF a >= b THEN a ELSE b

LitSeqS == <<TwoPointFiveS, NaNPayloadS, NegZeroS>>
LitOf(c, s) ==
    IF c.single THEN LitSeqS[((s - 1) % Len(LitSeqS)) + 1] ELSE Lit(s)

(* ------------------------ the heap allocator --------------------------- *)
(* A heap state is [hp, alloc, reqs, blk]: the cursor MR_hp, the set of    *)
(* word addresses handed out, the counts requested so far by the current   *)
(* operation, and the block the allocator returned last.                   *)

WordAddrs(c) == {k * c.wordBytes : k \in 0..(HeapWords - 1)}

Block(c, a, count) == {a + k * c.wordBytes : k \in 0..(count - 1)}

(* the blocks the allocator may hand out: the bump cursor itself under     *)
(* precise collection, any free word-aligned block under conservative      *)
(* collection; none when the heap is exhausted (fatal)                     *)
FreeBlocks(c, h, count) ==
    IF c.consGC
    THEN {a \in WordAddrs(c) :
            /\ a + count * c.wordBytes <= HeapBytes(c)
            /\ Block(c, a, count) \cap h.alloc = {}}
    ELSE IF h.hp + count * c.wordBytes <= HeapBytes(c) THEN {h.hp} ELSE {}

(* MR_hp_alloc_atomic_msg(count, ...): afterwards the block is the count   *)
(* words below MR_hp                                                       *)
MR_hp_alloc_atomic_msg(c, h, count) ==
    {[hp |-> a + count * c.wordBytes,
      alloc |-> h.alloc \cup Block(c, a, count),
      reqs |-> Append(h.reqs, count),
      blk |-> a] : a \in FreeBlocks(c, h, count)}

(* (MR_Word) MR_hp & (sizeof(MR_Float) - 1) *)
HpMisaligned(c, hp) == (hp % FloatBytes(c)) # 0

(* mutants: the alignment step dropped; the padding made in every mode *)
MR_make_hp_float_aligned_never(c, h) == {h}

MR_make_hp_float_aligned_always(c, h) ==
    IF HpMisaligned(c, h.hp) THEN MR_hp_alloc_atomic_msg(c, h, 1) ELSE {h}

MR_make_hp_float_aligned(c, h) ==
    IF c.consGC
    THEN {h}
    ELSE IF HpMisaligned(c, h.hp)
         THEN MR_hp_alloc_atomic_msg(c, h, 1)
         ELSE {h}

(* mutant: the cell offset not scaled by MR_FLOAT_WORDS *)
CellAddr_unscaled(c, hp) == hp - c.wordBytes

(* mutant: the cursor itself taken for the cell *)
CellAddr_cursor(c, hp) == hp

(* MR_hp - MR_FLOAT_WORDS *)
CellAddr(c, hp) == hp - MR_FLOAT_WORDS(c) * c.wordBytes

(* ---------------------------- word codec ------------------------------- *)
(* mutant: one word too many requested for the cell *)
MR_float_to_word_boxed_extra(c, h0, m, f) ==
    {[h |-> h2,
      mem |-> StoreFloat(m, h2.hp - MR_FLOAT_WORDS(c) * c.wordBytes, f),
      w |-> AddrToWord(h2.hp - MR_FLOAT_WORDS(c) * c.wordBytes, c.wordBytes)] :
        h2 \in UNION {MR_hp_alloc_atomic_msg(c, h1, MR_FLOAT_WORDS(c) + 1) :
                        h1 \in MR_make_hp_float_aligned(c, h0)}}

(* boxed MR_float_to_word: the outcomes [h, mem, w] of boxing f *)
MR_float_to_word_boxed(c, h0, m, f) ==
    {[h |-> h2,
      mem |-> StoreFloat(m, CellAddr(c, h2.hp), f),
      w |-> AddrToWord(CellAddr(c, h2.hp), c.wordBytes)] :
        h2 \in UNION {MR_hp_alloc_atomic_msg(c, h1, MR_FLOAT_WORDS(c)) :
                        h1 \in MR_make_hp_float_aligned(c, h0)}}

(* mutant: the cell read as one MR_Word instead of one MR_Float *)
MR_word_to_float_boxed_word(c, m, w) == LoadFloat(m, WordToAddr(w), c.wordBytes)

MR_word_to_float_boxed(c, m, w) == LoadFloat(m, WordToAddr(w), FloatBytes(c))

(* unboxed: union MR_Float_Word { MR_Float f; MR_Word w; }, u its storage *)
FloatWordUnions(c) == JunkUnion(Max(FloatBytes(c), c.wordBytes))

MR_float_to_word_unboxed(c, u, f) == UnionRead(UnionWrite(u, f), c.wordBytes)

MR_word_to_float_unboxed(c, u, w) == UnionRead(UnionWrite(u, w), FloatBytes(c))

(* ----------------------- the sequential runtime ------------------------ *)
(* the cells MR_float_to_word returned so far, and how many calls made them *)
NoBoxes == [cells |-> {}, n |-> 0]

NoLast ==
    [op |-> "none", f |-> <<>>, w |-> <<>>, res |-> <<>>, hp0 |-> 0,
     reqs |-> <<>>, blk |-> 0, site |-> 0, rep |-> "none"]

HeapState == [hp |-> MR_hp, alloc |-> allocated, reqs |-> <<>>, blk |-> 0]

InitMem(c, k) ==
    [x \in 0..(MemBytes - 1) |->
        IF MR_BOXED_FLOAT(c) /\ k.gnuc /\ x >= StaticBase
        THEN Lit(((x - StaticBase) \div DoubleBytes) + 1)
                [((x - StaticBase) % DoubleBytes) + 1]
        ELSE 0]

ThreadsIdle ==
    /\ pc = <<>>
    /\ tf = <<>>
    /\ tneed = <<>>
    /\ twr = <<>>
    /\ tmine = <<>>
    /\ tret = <<>>
    /\ shared = FALSE

Init ==
    /\ cfg \in BuildConfigs
    /\ cc \in [gnuc : BOOLEAN, clang : {FALSE}, c99 : {TRUE}, solaris : {FALSE}]
    /\ MR_hp \in {0, cfg.wordBytes}
    /\ allocated = {a \in WordAddrs(cfg) : a < MR_hp}
    /\ mem = InitMem(cfg, cc)
    /\ boxes = NoBoxes
    /\ last = NoLast
    /\ ThreadsIdle

(* whether this evaluation of a MR_float_const site repeats the previous   *)
(* one and returns the same word                                           *)
Repeat(op, site, w) ==
    IF op # "const" THEN "none"
    ELSE IF last.op = "const" /\ last.site = site
         THEN (IF w = last.w THEN "same" ELSE "diff")
         ELSE "first"

(* MR_float_to_word(f), from op at site *)
Convert(f, op, site) ==
    IF MR_BOXED_FLOAT(cfg)
    THEN \E o \in MR_float_to_word_boxed(cfg, HeapState, mem, f) :
            /\ MR_hp' = o.h.hp
            /\ allocated' = o.h.alloc
            /\ mem' = o.mem
            /\ boxes' = [cells |-> boxes.cells \cup
                                    {[addr |-> WordToAddr(o.w), val |-> f]},
                         n |-> boxes.n + 1]
            /\ last' = [op |-> op, f |-> f, w |-> o.w, res |-> <<>>,
                        hp0 |-> MR_hp, reqs |-> o.h.reqs, blk |-> o.h.blk,
                        site |-> site, rep |-> Repeat(op, site, o.w)]
    ELSE \E u \in FloatWordUnions(cfg) :
            /\ last' = [op |-> op, f |-> f,
                        w |-> MR_float_to_word_unboxed(cfg, u, f),
                        res |-> <<>>, hp0 |-> MR_hp, reqs |-> <<>>,
                        blk |-> 0, site |-> site,
                        rep |-> Repeat(op, site,
                                  MR_float_to_word_unboxed(cfg, u, f))]
            /\ UNCHANGED <<MR_hp, allocated, mem, boxes>>

FloatToWord(f) ==
    /\ Convert(f, "f2w", 0)
    /\ UNCHANGED <<cfg, cc>>
    /\ UNCHANGED thrVars

(* MR_word_to_float applied to the word the last conversion returned *)
WordToFloat ==
    /\ last.op \in {"f2w", "const"}
    /\ IF MR_BOXED_FLOAT(cfg)
       THEN last' = [last EXCEPT !.op = "w2f",
                        !.res = MR_word_to_float_boxed(cfg, mem, last.w)]
       ELSE \E u \in FloatWordUnions(cfg) :
            last' = [last EXCEPT !.op = "w2f",
                        !.res = MR_word_to_float_unboxed(cfg, u, last.w)]
    /\ UNCHANGED <<cfg, cc>>
    /\ UNCHANGED heapVars
    /\ UNCHANGED thrVars

(* mutant: every site sharing the static cell of the first one *)
MR_float_const_static_shared(c, s) == AddrToWord(StaticAddr(1), c.wordBytes)

(* GNU C MR_float_const: the address of the site's static const cell *)
MR_float_const_static(c, s) == AddrToWord(StaticAddr(s), c.wordBytes)

(* MR_float_const(f) at a call site whose literal is LitOf(cfg, s) *)
FloatConst(s) ==
    /\ IF MR_BOXED_FLOAT(cfg) /\ cc.gnuc
       THEN /\ last' = [op |-> "const", f |-> LitOf(cfg, s),
                        w |-> MR_float_const_static(cfg, s),
                        res |-> <<>>, hp0 |-> MR_hp, reqs |-> <<>>,
                        blk |-> 0, site |-> s,
                        rep |-> Repeat("const", s,
                                       MR_float_const_static(cfg, s))]
            /\ UNCHANGED <<MR_hp, allocated, mem, boxes>>
       ELSE Convert(LitOf(cfg, s), "const", s)
    /\ UNCHANGED <<cfg, cc>>
    /\ UNCHANGED thrVars

(* any other runtime allocation of n words, filled by its owner *)
HpAlloc(n, b) ==
    /\ \E h \in MR_hp_alloc_atomic_msg(cfg, HeapState, n) :
        /\ MR_hp' = h.hp
        /\ allocated' = h.alloc
        /\ mem' = FillBlock(mem, h.blk, n * cfg.wordBytes, b)
        /\ last' = [NoLast EXCEPT !.op = "alloc"]
    /\ UNCHANGED <<cfg, cc, boxes>>
    /\ UNCHANGED thrVars

Next ==
    \/ \E f \in ConvFloats(cfg) : FloatToWord(f)
    \/ WordToFloat
    \/ \E s \in Sites : FloatConst(s)
    \/ \E n \in 1..MaxAlloc : \E b \in FillBytes : HpAlloc(n, b)

Spec == Init /\ [][Next]_vars

(* ------------------- properties of the sequential runtime -------------- *)
Boxed == MR_BOXED_FLOAT(cfg)
FW == MR_FLOAT_WORDS(cfg)
Aligned(a) == a % FloatBytes(cfg) = 0
Decode(w) == MR_word_to_float_boxed(cfg, mem, w)
CellBytes(a) == {x \in DOMAIN mem : x >= a /\ x < a + FW * cfg.wordBytes}

\* C1: in every mode (unboxed, boxed conservative, boxed precise) and from
\* every reachable heap state, MR_word_to_float applied to the word that
\* MR_float_to_word(f) returned yields exactly the bytes of f.
C1_RoundTrip == last.op = "w2f" => last.res = last.f

C1_Witness ==
    /\ last.op = "w2f"
    /\ Boxed /\ ~cfg.consGC
    /\ last.f = NaNPayloadD
    /\ last.res = NaNPayloadD
    /\ last.reqs = <<1, FW>>
    /\ boxes.n >= 2

\* C2: boxed mode, precise collection: after any interleaving of heap
\* allocations and float boxings from a word-aligned cursor, every address
\* MR_float_to_word returned is a multiple of sizeof(MR_Float).
C2_PreciseAligned ==
    (Boxed /\ ~cfg.consGC) => \A b \in boxes.cells : Aligned(b.addr)

C2_Witness ==
    /\ Boxed /\ ~cfg.consGC
    /\ last.op = "f2w"
    /\ HpMisaligned(cfg, last.hp0)
    /\ Aligned(WordToAddr(last.w))
    /\ boxes.n >= 2

\* C3 (as stated): a boxed cell always starts at a multiple of
\* sizeof(MR_Float), and under conservative collection a one-word padding
\* allocation is made whenever the cursor is misaligned before the cell.
C3_Original ==
    (Boxed /\ last.op = "f2w") =>
        /\ Aligned(WordToAddr(last.w))
        /\ (cfg.consGC /\ HpMisaligned(cfg, last.hp0))
              => last.reqs = <<1, FW>>

\* C3 (amended): under precise collection a boxed cell starts at a multiple
\* of sizeof(MR_Float), by a one-word padding allocation made exactly when
\* the cursor is misaligned; under conservative collection no padding is
\* made and the cell is the block the allocator returned.
C3_Amended ==
    (Boxed /\ last.op = "f2w") =>
        IF cfg.consGC
        THEN /\ last.reqs = <<FW>>
             /\ WordToAddr(last.w) = last.blk
        ELSE /\ Aligned(WordToAddr(last.w))
             /\ last.reqs =
                  (IF HpMisaligned(cfg, last.hp0) THEN <<1, FW>> ELSE <<FW>>)

C3_Witness ==
    /\ Boxed /\ cfg.consGC
    /\ last.op = "f2w"
    /\ HpMisaligned(cfg, last.hp0)
    /\ last.reqs = <<FW>>
    /\ WordToAddr(last.w) = last.blk

\* C6 (as stated): in boxed mode MR_float_const(f) never allocates: the
\* cursor is unchanged, a repeated evaluation of the site returns the same
\* address, and the cell decodes to f.
C6_Original ==
    (Boxed /\ last.op = "const") =>
        /\ MR_hp = last.hp0
        /\ last.reqs = <<>>
        /\ last.rep # "diff"
        /\ Decode(last.w) = last.f

\* C6 (amended): in boxed mode built with GNU C, MR_float_const(f) never
\* allocates, returns the address of the site's static cell on every
\* evaluation, and that cell decodes to f; built with another compiler it
\* is MR_float_to_word(f): each evaluation allocates a fresh heap cell,
\* which decodes to f.
C6_Amended ==
    (Boxed /\ last.op = "const") =>
        IF cc.gnuc
        THEN /\ MR_hp = last.hp0
             /\ last.reqs = <<>>
             /\ last.rep # "diff"
             /\ last.w = AddrToWord(StaticBase + (last.site - 1) * DoubleBytes,
                                    cfg.wordBytes)
             /\ Decode(last.w) = last.f
        ELSE /\ last.reqs # <<>>
             /\ last.rep # "same"
             /\ WordToAddr(last.w) = last.blk
             /\ Decode(last.w) = last.f

C6_Witness ==
    /\ Boxed /\ cc.gnuc
    /\ last.op = "const"
    /\ last.rep = "same"
    /\ last.f = NaNPayloadD
    /\ MR_hp = last.hp0
    /\ boxes.n > 0

\* C9: boxed mode: under precise collection one MR_float_to_word advances
\* the cursor by MR_FLOAT_WORDS words from an aligned cursor and by
\* MR_FLOAT_WORDS + 1 words (a padding word first) from a misaligned one;
\* under conservative collection it requests exactly MR_FLOAT_WORDS words
\* and no padding word.
C9_CursorAdvance ==
    (Boxed /\ last.op = "f2w") =>
        IF cfg.consGC
        THEN last.reqs = <<FW>>
        ELSE /\ MR_hp - last.hp0 =
                  (IF HpMisaligned(cfg, last.hp0) THEN FW + 1 ELSE FW)
                      * cfg.wordBytes
             /\ last.reqs =
                  (IF HpMisaligned(cfg, last.hp0) THEN <<1, FW>> ELSE <<FW>>)

C9_Witness ==
    /\ Boxed /\ ~cfg.consGC
    /\ last.op = "f2w"
    /\ HpMisaligned(cfg, last.hp0)
    /\ MR_hp - last.hp0 = (FW + 1) * cfg.wordBytes

C10_Inv ==
    Boxed =>
        /\ Cardinality(boxes.cells) = boxes.n
        /\ \A b \in boxes.cells :
              Decode(AddrToWord(b.addr, cfg.wordBytes)) = b.val
        /\ \A b1, b2 \in boxes.cells :
              b1 # b2 => CellBytes(b1.addr) \cap CellBytes(b2.addr) = {}

C10_Frame ==
    (Boxed /\ boxes' # boxes) =>
        \A x \in DOMAIN mem :
            mem'[x] # mem[x] => x \in CellBytes(WordToAddr(last'.w))

\* C10: boxed mode, no collection: the cells of different MR_float_to_word
\* calls never overlap, every returned address keeps decoding to the value
\* boxed there across later boxings and other allocations, and a boxing
\* writes only the words of its own new cell.
C10_NoOverlap == []C10_Inv /\ [][C10_Frame]_vars

C10_Witness ==
    /\ Boxed
    /\ last.op = "alloc"
    /\ \E b1, b2 \in boxes.cells :
          /\ b1.addr < b2.addr
          /\ b1.val # b2.val
          /\ Decode(AddrToWord(b1.addr, cfg.wordBytes)) = b1.val

(* ----------------- every combination of the build macros --------------- *)
(* mercury_float.h has no #error: whatever MR_USE_SINGLE_PREC_FLOAT,       *)
(* MR_BOXED_FLOAT and sizeof(MR_Word) are, the header defines a codec      *)
MR_float_h_rejects(c) == FALSE

InitAll ==
    /\ cfg \in AllConfigs
    /\ cc \in [gnuc : BOOLEAN, clang : {FALSE}, c99 : {TRUE}, solaris : {FALSE}]
    /\ MR_hp \in {0, cfg.wordBytes}
    /\ allocated = {a \in WordAddrs(cfg) : a < MR_hp}
    /\ mem = InitMem(cfg, cc)
    /\ boxes = NoBoxes
    /\ last = NoLast
    /\ ThreadsIdle

(* the word codec under the effective mode *)
NextAll ==
    \/ \E f \in ConvFloats(cfg) : FloatToWord(f)
    \/ WordToFloat

SpecAll == InitAll /\ [][NextAll]_vars

\* C7: every build configuration the header accepts has an effective mode
\* in which unboxed implies sizeof(MR_Float) <= sizeof(MR_Word); a
\* configuration selecting unboxed floats wider than a word is rejected.
C7_UnboxedFits ==
    ~MR_float_h_rejects(cfg) =>
        (~MR_BOXED_FLOAT(cfg) => FloatBytes(cfg) <= cfg.wordBytes)

(* ------------------------------ dword codec ---------------------------- *)
(* union MR_Float_Dword { MR_Float f; MR_Word w[2]; }, u its storage *)
DwordUnions(c) == JunkUnion(Max(FloatBytes(c), 2 * c.wordBytes))

UnionWriteAt(u, off, v) ==
    [i \in 1..Len(u) |->
        IF i > off /\ i <= off + Len(v) THEN v[i - off] ELSE u[i]]

UnionReadAt(u, off, n) == SubSeq(u, off + 1, off + n)

(* GNU C: ((union MR_Float_Dword) (MR_Float) (F)).w[(I)] *)
MR_float_word_bits_cast(c, u, F, I) ==
    UnionReadAt(UnionWriteAt(u, 0, F), I * c.wordBytes, c.wordBytes)

(* otherwise: __ffdw.f = f; return __ffdw.w[n]; *)
MR_float_word_bits_func(c, u, f, n) ==
    LET ffdw == UnionWriteAt(u, 0, f)
    IN  UnionReadAt(ffdw, n * c.wordBytes, c.wordBytes)

MR_float_word_bits(c, k, u, f, n) ==
    IF k.gnuc \/ k.clang
    THEN MR_float_word_bits_cast(c, u, f, n)
    ELSE MR_float_word_bits_func(c, u, f, n)

(* GNU C statement expression: __ffdw.w[0] = w0; __ffdw.w[1] = w1; __ffdw.f *)
MR_float_from_dword_stmt(c, u, w0, w1) ==
    UnionReadAt(UnionWriteAt(UnionWriteAt(u, 0, w0), c.wordBytes, w1),
                0, FloatBytes(c))

(* mutant: the two words stored in the opposite order *)
MR_float_from_dword_func_swapped(c, u, w0, w1) ==
    UnionReadAt(UnionWriteAt(UnionWriteAt(u, 0, w1), c.wordBytes, w0),
                0, FloatBytes(c))

MR_float_from_dword_func(c, u, w0, w1) ==
    LET ffdw0 == UnionWriteAt(u, 0, w0)
        ffdw1 == UnionWriteAt(ffdw0, c.wordBytes, w1)
    IN  UnionReadAt(ffdw1, 0, FloatBytes(c))

MR_float_from_dword(c, k, u, w0, w1) ==
    IF k.gnuc \/ k.clang
    THEN MR_float_from_dword_stmt(c, u, w0, w1)
    ELSE MR_float_from_dword_func(c, u, w0, w1)

(* the words a dword slot may hold *)
DwordSources == {NegNaNPayloadD, PiD, NegZeroD}
DwordWords(c) ==
    {SubSeq(f, 1, c.wordBytes) : f \in DwordSources}
        \cup {SubSeq(f, Len(f) - c.wordBytes + 1, Len(f)) : f \in DwordSources}

(* ------------------------------ classifier ----------------------------- *)
(* the IEEE-754 fields of a pattern stored least significant byte first *)
ExpAllOnes(c, f) ==
    IF c.single
    THEN (f[4] % 128) * 2 + (f[3] \div 128) = 255
    ELSE (f[8] % 128) * 16 + (f[7] \div 16) = 2047

MantissaZero(c, f) ==
    IF c.single
    THEN f[3] % 128 = 0 /\ f[2] = 0 /\ f[1] = 0
    ELSE f[7] % 16 = 0 /\ \A i \in 1..6 : f[i] = 0

(* the C99 <math.h> classification macros *)
fpclassify(c, f) ==
    IF ~ExpAllOnes(c, f) THEN "FP_FINITE"
    ELSE IF MantissaZero(c, f) THEN "FP_INFINITE" ELSE "FP_NAN"

isnan(c, f) == fpclassify(c, f) = "FP_NAN"
isinf(c, f) == fpclassify(c, f) = "FP_INFINITE"
isfinite(c, f) == fpclassify(c, f) = "FP_FINITE"

(* the portable fallbacks of mercury_float.c *)
MR_is_nan_func(c, f) == ExpAllOnes(c, f) /\ ~MantissaZero(c, f)
MR_is_infinite_func(c, f) == ExpAllOnes(c, f) /\ MantissaZero(c, f)

MR_is_nan(c, k, f) == IF k.c99 THEN isnan(c, f) ELSE MR_is_nan_func(c, f)

MR_is_infinite(c, k, f) ==
    IF k.c99 /\ ~k.solaris THEN isinf(c, f) ELSE MR_is_infinite_func(c, f)

(* mutant: the fallback forgetting the NaN test *)
MR_is_finite_no_nan(c, k, f) ==
    IF k.c99 /\ ~k.solaris THEN isfinite(c, f) ELSE ~MR_is_infinite(c, k, f)

MR_is_finite(c, k, f) ==
    IF k.c99 /\ ~k.solaris
    THEN isfinite(c, f)
    ELSE ~MR_is_infinite(c, k, f) /\ ~MR_is_nan(c, k, f)

(* ------------------- the pure codecs and the classifier ---------------- *)
InitPure ==
    /\ cfg \in BuildConfigs
    /\ cc \in [gnuc : BOOLEAN, clang : BOOLEAN, c99 : BOOLEAN,
               solaris : BOOLEAN]
    /\ MR_hp = 0
    /\ allocated = {}
    /\ mem = InitMem(cfg, cc)
    /\ boxes = NoBoxes
    /\ last = [op |-> "none"]
    /\ ThreadsIdle

pureFrame ==
    /\ UNCHANGED <<cfg, cc>>
    /\ UNCHANGED heapVars
    /\ UNCHANGED thrVars

(* MR_float_word_bits(f, i), on the configured path and on the other one *)
WordBits(f, i) ==
    /\ MR_BOXED_FLOAT(cfg)
    /\ \E u \in DwordUnions(cfg) :
        last' = [op |-> "bits", f |-> f, i |-> i,
                 w |-> MR_float_word_bits(cfg, cc, u, f, i),
                 cast |-> MR_float_word_bits_cast(cfg, u, f, i),
                 func |-> MR_float_word_bits_func(cfg, u, f, i)]
    /\ pureFrame

(* both halves of f *)
SplitToDwords(f) ==
    /\ MR_BOXED_FLOAT(cfg)
    /\ \E u0, u1 \in DwordUnions(cfg) :
        last' = [op |-> "split", f |-> f,
                 w0 |-> MR_float_word_bits(cfg, cc, u0, f, 0),
                 w1 |-> MR_float_word_bits(cfg, cc, u1, f, 1)]
    /\ pureFrame

(* MR_float_from_dword of the two halves just split *)
JoinSplit ==
    /\ MR_BOXED_FLOAT(cfg)
    /\ last.op = "split"
    /\ \E u \in DwordUnions(cfg) :
        last' = [op |-> "rejoin", f |-> last.f,
                 res |-> MR_float_from_dword(cfg, cc, u, last.w0, last.w1)]
    /\ pureFrame

(* MR_float_from_dword(w0, w1) and the halves of its result *)
JoinFromDwords(w0, w1) ==
    /\ MR_BOXED_FLOAT(cfg)
    /\ \E u, u0, u1 \in DwordUnions(cfg) :
        LET g == MR_float_from_dword(cfg, cc, u, w0, w1) IN
        last' = [op |-> "join", w0 |-> w0, w1 |-> w1, f |-> g,
                 stmt |-> MR_float_from_dword_stmt(cfg, u, w0, w1),
                 func |-> MR_float_from_dword_func(cfg, u, w0, w1),
                 b0 |-> MR_float_word_bits(cfg, cc, u0, g, 0),
                 b1 |-> MR_float_word_bits(cfg, cc, u1, g, 1)]
    /\ pureFrame

(* MR_is_nan(f), MR_is_infinite(f), MR_is_finite(f) *)
Classify(f) ==
    /\ last' = [op |-> "class", f |-> f,
                nan |-> MR_is_nan(cfg, cc, f),
                inf |-> MR_is_infinite(cfg, cc, f),
                fin |-> MR_is_finite(cfg, cc, f)]
    /\ pureFrame

NextPure ==
    \/ \E f \in DoubleFloats : \E i \in {0, 1} : WordBits(f, i)
    \/ \E f \in DoubleFloats : SplitToDwords(f)
    \/ JoinSplit
    \/ \E w0, w1 \in DwordWords(cfg) : JoinFromDwords(w0, w1)
    \/ \E f \in Floats(cfg) : Classify(f)

SpecPure == InitPure /\ [][NextPure]_vars

\* C5: for every double f and all words w0, w1: joining the two halves of
\* f gives back f bit for bit; MR_float_word_bits(f, 0) and (f, 1) are the
\* first and the second word of f; the halves of MR_float_from_dword(w0, w1)
\* are w0 and w1; the GNU C path and the function path agree.
C5_DwordRoundTrip ==
    /\ last.op = "rejoin" => last.res = last.f
    /\ last.op = "split" =>
          /\ last.w0 = SubSeq(last.f, 1, cfg.wordBytes)
          /\ last.w1 = SubSeq(last.f, cfg.wordBytes + 1, 2 * cfg.wordBytes)
    /\ last.op = "bits" =>
          /\ last.w = SubSeq(last.f, last.i * cfg.wordBytes + 1,
                             (last.i + 1) * cfg.wordBytes)
          /\ last.cast = last.func
    /\ last.op = "join" =>
          /\ last.b0 = last.w0
          /\ last.b1 = last.w1
          /\ last.stmt = last.func

C5_Witness ==
    /\ last.op = "rejoin"
    /\ ~cc.gnuc /\ ~cc.clang
    /\ last.f = NegNaNPayloadD
    /\ last.res = NegNaNPayloadD

\* C8: for every float f, where MR_is_finite is not the native isfinite it
\* equals not (MR_is_infinite or MR_is_nan); exactly one of MR_is_nan,
\* MR_is_infinite, MR_is_finite holds; and the result is that of isfinite.
C8_Classifier ==
    last.op = "class" =>
        /\ ~(cc.c99 /\ ~cc.solaris) => (last.fin <=> ~(last.inf \/ last.nan))
        /\ Cardinality({x \in {"nan", "inf", "fin"} : last[x]}) = 1
        /\ last.fin <=> isfinite(cfg, last.f)

C8_Witness ==
    /\ last.op = "class"
    /\ ~cc.c99
    /\ last.f \in {NaNPayloadD, NaNPayloadS}
    /\ last.nan /\ ~last.inf /\ ~last.fin

(* ----------------------- concurrent float boxing ----------------------- *)
(* Each thread evaluates MR_float_to_word(f) once.  The allocator call is  *)
(* one atomic step; every other read of MR_hp and every store is a step of *)
(* its own.  shared: all threads use one cursor; otherwise each thread has *)
(* its own cursor (and, under precise collection, its own heap segment).   *)
Threads == 1..NumThreads
SegWords == HeapWords \div NumThreads
Cursor(t) == IF shared THEN 1 ELSE t
Cursors == IF shared THEN {1} ELSE Threads
SegStart(c, t) ==
    IF shared \/ c.consGC THEN 0 ELSE (t - 1) * SegWords * c.wordBytes
SegEnd(c, t) ==
    IF shared \/ c.consGC THEN HeapBytes(c) ELSE t * SegWords * c.wordBytes

InitConc ==
    /\ cfg \in {c \in BuildConfigs : MR_BOXED_FLOAT(c)}
    /\ cc = [gnuc |-> TRUE, clang |-> FALSE, c99 |-> TRUE, solaris |-> FALSE]
    /\ shared \in BOOLEAN
    /\ MR_hp = [k \in Cursors |-> SegStart(cfg, k)]
    /\ allocated = {}
    /\ mem = InitMem(cfg, cc)
    /\ boxes = NoBoxes
    /\ last = NoLast
    /\ pc = [t \in Threads |-> "idle"]
    /\ tf = [t \in Threads |-> <<>>]
    /\ tneed = [t \in Threads |-> FALSE]
    /\ twr = [t \in Threads |-> 0]
    /\ tmine = [t \in Threads |-> 0]
    /\ tret = [t \in Threads |-> <<>>]

concFrame == UNCHANGED <<cfg, cc, boxes, last, shared>>

(* one serialized allocator call by thread t *)
ThreadAlloc(t, count) ==
    {o \in MR_hp_alloc_atomic_msg(cfg,
              [hp |-> MR_hp[Cursor(t)], alloc |-> allocated,
               reqs |-> <<>>, blk |-> 0], count) :
        o.hp <= SegEnd(cfg, t)}

Start(t, f) ==
    /\ pc[t] = "idle"
    /\ tf' = [tf EXCEPT ![t] = f]
    /\ pc' = [pc EXCEPT ![t] = IF cfg.consGC THEN "alloc" ELSE "align"]
    /\ UNCHANGED <<MR_hp, allocated, mem, tneed, twr, tmine, tret>>
    /\ concFrame

(* MR_make_hp_float_aligned: the test of MR_hp *)
AlignTest(t) ==
    /\ pc[t] = "align"
    /\ tneed' = [tneed EXCEPT ![t] = HpMisaligned(cfg, MR_hp[Cursor(t)])]
    /\ pc' = [pc EXCEPT ![t] = "pad"]
    /\ UNCHANGED <<MR_hp, allocated, mem, tf, twr, tmine, tret>>
    /\ concFrame

(* MR_make_hp_float_aligned: the padding allocation *)
Pad(t) ==
    /\ pc[t] = "pad"
    /\ IF tneed[t]
       THEN \E o \in ThreadAlloc(t, 1) :
              /\ MR_hp' = [MR_hp EXCEPT ![Cursor(t)] = o.hp]
              /\ allocated' = o.alloc
       ELSE UNCHANGED <<MR_hp, allocated>>
    /\ pc' = [pc EXCEPT ![t] = "alloc"]
    /\ UNCHANGED <<mem, tf, tneed, twr, tmine, tret>>
    /\ concFrame

(* MR_hp_alloc_atomic_msg(MR_FLOAT_WORDS, ...) *)
Alloc(t) ==
    /\ pc[t] = "alloc"
    /\ \E o \in ThreadAlloc(t, MR_FLOAT_WORDS(cfg)) :
          /\ MR_hp' = [MR_hp EXCEPT ![Cursor(t)] = o.hp]
          /\ allocated' = o.alloc
          /\ tmine' = [tmine EXCEPT ![t] = o.blk]
    /\ pc' = [pc EXCEPT ![t] = "addr"]
    /\ UNCHANGED <<mem, tf, tneed, twr, tret>>
    /\ concFrame

(* the store: its address is computed from MR_hp *)
WriteAddr(t) ==
    /\ pc[t] = "addr"
    /\ twr' = [twr EXCEPT ![t] = CellAddr(cfg, MR_hp[Cursor(t)])]
    /\ pc' = [pc EXCEPT ![t] = "write0"]
    /\ UNCHANGED <<MR_hp, allocated, mem, tf, tneed, tmine, tret>>
    /\ concFrame

(* the store: the first word of the value *)
Write0(t) ==
    /\ pc[t] = "write0"
    /\ mem' = StoreFloat(mem, twr[t], SubSeq(tf[t], 1, cfg.wordBytes))
    /\ pc' = [pc EXCEPT ![t] = "write1"]
    /\ UNCHANGED <<MR_hp, allocated, tf, tneed, twr, tmine, tret>>
    /\ concFrame

(* the store: the rest of the value *)
Write1(t) ==
    /\ pc[t] = "write1"
    /\ mem' = StoreFloat(mem, twr[t] + cfg.wordBytes,
                         SubSeq(tf[t], cfg.wordBytes + 1, Len(tf[t])))
    /\ pc' = [pc EXCEPT ![t] = "ret"]
    /\ UNCHANGED <<MR_hp, allocated, tf, tneed, twr, tmine, tret>>
    /\ concFrame

(* the value of the macro: (MR_Word) (MR_hp - MR_FLOAT_WORDS) *)
Return(t) ==
    /\ pc[t] = "ret"
    /\ tret' = [tret EXCEPT ![t] =
                  AddrToWord(CellAddr(cfg, MR_hp[Cursor(t)]), cfg.wordBytes)]
    /\ pc' = [pc EXCEPT ![t] = "done"]
    /\ UNCHANGED <<MR_hp, allocated, mem, tf, tneed, twr, tmine>>
    /\ concFrame

NextConc ==
    \E t \in Threads :
        \/ \E f \in HeapFloats(cfg) : Start(t, f)
        \/ AlignTest(t)
        \/ Pad(t)
        \/ Alloc(t)
        \/ WriteAddr(t)
        \/ Write0(t)
        \/ Write1(t)
        \/ Return(t)

SpecConc == InitConc /\ [][NextConc]_vars

OwnCell(t) ==
    /\ WordToAddr(tret[t]) = tmine[t]
    /\ LoadFloat(mem, WordToAddr(tret[t]), FloatBytes(cfg)) = tf[t]
    /\ \A u \in Threads \ {t} : pc[u] = "done" => tret[u] # tret[t]

\* C4 (as stated): with an allocator that serializes each allocation call
\* on a shared cursor, or gives each thread its own cursor, every
\* concurrent MR_float_to_word returns the address of its own distinct
\* cell, the cell holds the value passed, and it is written before the
\* address is returned.
C4_Original == \A t \in Threads : pc[t] = "done" => OwnCell(t)

\* C4 (amended): the same, for an allocator that gives each thread its own
\* cursor; a cursor shared between threads is not enough, because the
\* macro reads MR_hp again after the allocation call.
C4_Amended == ~shared => \A t \in Threads : pc[t] = "done" => OwnCell(t)

C4_Witness ==
    /\ ~shared
    /\ \A t \in Threads : pc[t] = "done"
    /\ \E t, u \in Threads : tf[t] # tf[u] /\ tret[t] # tret[u]
    /\ \A t \in Threads : OwnCell(t)

====
